---- MODULE Spec2Model ----
(***************************************************************************)
(* The audio engine of src/context/audio-context.tsx (AudioProvider) as a   *)
(* state machine: the activation list, the Web Audio graph built by the     *)
(* apply-effects useEffect, the playback rate of the audio element, the     *)
(* file / initialization life cycle, the recording useEffect with the       *)
(* recorders, taps, timers and promises of downloadProcessedAudio, and      *)
(* togglePlay.                                                              *)
(*                                                                          *)
(* One action is one event handler together with the React commit it        *)
(* causes: the state update, the re-render and every useEffect whose        *)
(* dependency changed.  Rates are in hundredths (1.0 is 100).               *)
(***************************************************************************)
EXTENDS Integers, Sequences, FiniteSets, TLC

VARIABLES
    audioFile,                \* useState audioFile: 0 is null, else the File
    audioUrl,                 \* useState audioUrl: 0 is null, else the object URL of that file
    canPlayListener,          \* handleCanPlayThrough is registered on the audio element
    mediaElementSourced,      \* the audio element already feeds a MediaElementAudioSourceNode
    audioContextRef,          \* audioContextRef.current: "null", or the state of the context
    sourceNodeRef,            \* sourceNodeRef.current is set
    gainNodeRef,              \* gainNodeRef.current is set
    audioContextInitialized,  \* useState audioContextInitialized
    activeEffectIds,          \* useState activeEffectIds: ids in the order they were toggled on
    effectNodes,              \* effectNodesRef.current: Map id -> node, in insertion order
    edges,                    \* the connections of the audio graph: <<from, to>>
    selectedEffects,          \* the ids Random FX picked when it was last applied (<<>> if it was not)
    playbackRate,             \* audioRef.current.playbackRate
    lastToggle,               \* observer: the toggleEffect calls just made in a row, and the state before them
    rafLoops,                 \* the requestAnimationFrame loops that are running
    mounted,                  \* the provider is mounted (no useEffect has thrown)
    isRecording,              \* useState isRecording
    recorders,                \* the MediaRecorders that record or owe an event
    mediaRecorderRef,         \* mediaRecorderRef.current: one of recorders, or 0 (null, or a recorder that is done)
    recordedChunks,           \* recordedChunksRef.current: the recorder each chunk came from
    taps,                     \* the MediaStreamDestinations Master Gain is connected to
    recordingCleanup,         \* the cleanup the recording useEffect returned last: 0 none, else its recorder
    safetyTimeout,            \* the 30 s timeout of that run of the effect is pending
    playing,                  \* the audio element is playing
    currentTime,              \* audioRef.current.currentTime: 0 the start, 1 later
    playPending,              \* a play() promise of downloadProcessedAudio is pending
    resumePending,            \* the resume() promise of downloadProcessedAudio: "none", "current", "stale"
    isPlaying,                \* useState isPlaying
    resumeCalled,             \* a resume() call of togglePlay has not settled
    artifacts,                \* observer: the downloads triggered since the last accepted export request (2: more than one)
    lastArtifact,             \* observer: the download the step just taken triggered
    lastExport                \* observer: how the downloadProcessedAudio call just made ended

graphVars == <<audioFile, audioUrl, canPlayListener, mediaElementSourced, audioContextRef,
               sourceNodeRef, gainNodeRef, audioContextInitialized, activeEffectIds,
               effectNodes, edges, selectedEffects, playbackRate, lastToggle, rafLoops, mounted>>

recorderVars == <<recorders, mediaRecorderRef, recordedChunks, taps, recordingCleanup, safetyTimeout>>

elementVars == <<playing, currentTime, playPending, resumePending>>

playbackVars == <<isPlaying, resumeCalled>>

observerVars == <<artifacts, lastArtifact, lastExport>>

vars == <<graphVars, isRecording, recorderVars, elementVars, playbackVars, observerVars>>

----------------------------------------------------------------------------
(* Bounds of the model *)

\* the largest number of ids held in activeEffectIds
MaxActive == 2
\* the files the user can pick
NumFiles == 2
\* the seeds Math.random() can run from
RandomSeeds == 3
\* the largest number of requestAnimationFrame loops running at once
MaxLoops == 1
\* the largest number of MediaRecorders with something left to do at once
MaxRecorders == 2
\* the largest number of taps left connected by set-ups that failed
MaxLeakedTaps == 1

----------------------------------------------------------------------------
(* Helpers on sequences and sets *)

Range(s) == {s[i] : i \in DOMAIN s}

Last(s) == s[Len(s)]

SetMax(S) == CHOOSE x \in S : \A y \in S : y <= x

SetMin(S) == CHOOSE x \in S : \A y \in S : x <= y

RECURSIVE SortedSeq(_)
SortedSeq(S) == IF S = {} THEN <<>> ELSE <<SetMin(S)>> \o SortedSeq(S \ {SetMin(S)})

IsInjective(s) == \A i, j \in DOMAIN s : s[i] = s[j] => i = j

----------------------------------------------------------------------------
(* The catalog *)

\* One descriptor: rate is the playbackRate its apply writes (0: none), nodes
\* the number of nodes it creates and chains (0: it returns its input), fed
\* whether its apply connects its input to the first of them, loops the number
\* of requestAnimationFrame loops its apply starts.
Effect(id, name, rate, nodes, fed, loops) ==
    [id |-> id, name |-> name, rate |-> rate, nodes |-> nodes, fed |-> fed, loops |-> loops]

\* The descriptors of availableEffects the model carries, in array order:
\* plain node-inserting stages (Bass Boost, Reverb), 8D Audio with its panning
\* loop, every descriptor whose apply writes playbackRate, Granular, whose
\* apply returns a script processor it never connects its input to, and
\* Random FX.
availableEffects ==
    << Effect(1,  "Bass Boost",       0,   1, TRUE,  0),
       Effect(2,  "8D Audio",         0,   1, TRUE,  1),
       Effect(3,  "Reverb",           0,   1, TRUE,  0),
       Effect(4,  "Nightcore",        130, 0, TRUE,  0),
       Effect(5,  "Vaporwave",        80,  0, TRUE,  0),
       Effect(9,  "Pitch Shift Up",   120, 0, TRUE,  0),
       Effect(10, "Pitch Shift Down", 85,  0, TRUE,  0),
       Effect(27, "Chipmunk",         150, 1, TRUE,  0),
       Effect(28, "Monster Voice",    70,  2, TRUE,  0),
       Effect(36, "Granular",         0,   1, FALSE, 0),
       Effect(40, "Time Stretch",     70,  0, TRUE,  0),
       Effect(47, "Random FX",        0,   0, TRUE,  0) >>

CatalogIds == {availableEffects[i].id : i \in DOMAIN availableEffects}

EffectById(id) == availableEffects[CHOOSE i \in DOMAIN availableEffects : availableEffects[i].id = id]

\* the id of Random FX
RandomFxId == 47

\* an id no descriptor has
UnknownId == 51

\* the id of Granular
GranularId == 36

\* the ids toggleEffect is called with while an export is studied: Bass Boost
CaptureInputs == {1}

\* the id of 8D Audio
EightDAudioId == 2

\* the ids toggleEffect is called with while the stages are studied: Bass
\* Boost, 8D Audio and Granular
StageInputs == {1, EightDAudioId, GranularId}

\* the ids toggleEffect is called with while the order and the rate are studied
ToggleInputs == (CatalogIds \ StageInputs) \cup {UnknownId}

\* mutant of ResetNames: the reset looks for every descriptor that writes the rate
ResetNamesAllRateEffects ==
    {"Nightcore", "Vaporwave", "Pitch Shift Up", "Pitch Shift Down",
     "Chipmunk", "Monster Voice", "Time Stretch"}

\* the names the rate reset of the apply-effects useEffect looks for
ResetNames == {"Nightcore", "Vaporwave", "Pitch Shift Up", "Pitch Shift Down"}

\* mutant of ActiveEffectsOf: the active descriptors in the order of activeEffectIds
ActiveEffectsInToggleOrder(ids) ==
    LET known == SelectSeq(ids, LAMBDA x : x \in CatalogIds)
    IN  [i \in DOMAIN known |-> EffectById(known[i])]

\* const activeEffects = availableEffects.filter((effect) => activeEffectIds.includes(effect.id))
ActiveEffectsOf(ids) == SelectSeq(availableEffects, LAMBDA e : e.id \in Range(ids))

activeEffects == ActiveEffectsOf(activeEffectIds)

IdsOf(effects) == [i \in DOMAIN effects |-> effects[i].id]

----------------------------------------------------------------------------
(* Nodes of the audio graph *)

\* <<top, pos, eff, k>>: the k-th node created by descriptor eff, applied as the
\* top-level stage top (pos = 0) or as pick number pos of Random FX (top = 47).
StageNode(top, pos, eff, k) == <<top, pos, eff, k>>

SourceNode == <<0, 0, 0, 0>>
GainNode == <<0, 0, 0, 1>>
Destination == <<0, 0, 0, 2>>

\* sourceNode.connect(gainNode); gainNode.connect(audioContext.destination)
InitialWiring == {<<SourceNode, GainNode>>, <<GainNode, Destination>>}

\* node.connect(to)
Connect(E, from, to) == E \cup {<<from, to>>}

\* mutant of Disconnect: the connections into the node go, not those out of it
DisconnectInputs(E, node) == {e \in E : e[2] # node}

\* node.disconnect(): every outgoing connection of the node goes
Disconnect(E, node) == {e \in E : e[1] # node}

RECURSIVE ReachFrom(_, _)
ReachFrom(S, E) ==
    LET next == S \cup {e[2] : e \in {x \in E : x[1] \in S}}
    IN  IF next = S THEN S ELSE ReachFrom(next, E)

RECURSIVE ReachInto(_, _)
ReachInto(S, E) ==
    LET next == S \cup {e[1] : e \in {x \in E : x[2] \in S}}
    IN  IF next = S THEN S ELSE ReachInto(next, E)

\* The connections that still carry or can carry signal: those downstream of
\* Source and those upstream of Master Gain or Destination.  Nodes cut off from
\* both are unreferenced and dropped.
LiveEdges(E) ==
    {e \in E : e[1] \in ReachFrom({SourceNode}, E)
               \/ e[2] \in ReachInto({GainNode, Destination}, E)}

----------------------------------------------------------------------------
(* The descriptors' apply functions *)

\* The state an apply works on: the connections, the playback rate of the audio
\* element and the node handed on as `source`.
Fold(E, rate, cur) == [edges |-> E, rate |-> rate, cur |-> cur]

\* mutant of ApplyDescriptor: a rate effect writes its rate only over the default rate
ApplyDescriptorKeepsRate(e, top, pos, g) ==
    LET node(k) == StageNode(top, pos, e.id, k)
        rate == IF e.rate # 0 /\ g.rate = 100 THEN e.rate ELSE g.rate
    IN  IF e.nodes = 0
        THEN Fold(g.edges, rate, g.cur)
        ELSE Fold(g.edges \cup (IF e.fed THEN {<<g.cur, node(1)>>} ELSE {})
                          \cup {<<node(k), node(k + 1)>> : k \in 1..(e.nodes - 1)},
                  rate, node(e.nodes))

\* apply of a descriptor other than Random FX: it writes playbackRate if it is a
\* rate effect, connects its input to the first node it creates (Granular does
\* not), chains its nodes and returns the last one (its input if it creates
\* none).
ApplyDescriptor(e, top, pos, g) ==
    LET node(k) == StageNode(top, pos, e.id, k)
        rate == IF e.rate # 0 THEN e.rate ELSE g.rate
    IN  IF e.nodes = 0
        THEN Fold(g.edges, rate, g.cur)
        ELSE Fold(g.edges \cup (IF e.fed THEN {<<g.cur, node(1)>>} ELSE {})
                          \cup {<<node(k), node(k + 1)>> : k \in 1..(e.nodes - 1)},
                  rate, node(e.nodes))

\* Math.random(): the generator's next state, from its state x.  A run of the
\* generator is fixed by its seed; the numbers it returns are x / 101.
NextRandom(x) == (36 * x + 12) % 101

\* j = Math.floor(Math.random() * (i + 1)), for the array index i (from 0) and
\* the generator state x behind the number drawn
RandomIndex(x, i) == (x * (i + 1)) \div 101

\* [a[i], a[j]] = [a[j], a[i]], on indices from 0
Swap(a, i, j) == [a EXCEPT ![i + 1] = a[j + 1], ![j + 1] = a[i + 1]]

\* for (let i = length - 1; i > 0; i--) { j = ...; swap(i, j) }: the array the
\* loop ends with, from step i on, the generator being in state x
RECURSIVE ShuffleFrom(_, _, _)
ShuffleFrom(a, i, x) ==
    IF i <= 0 THEN a
    ELSE LET x1 == NextRandom(x)
         IN  ShuffleFrom(Swap(a, i, RandomIndex(x1, i)), i - 1, x1)

\* mutant of availableEffectsCopy: Random FX is not filtered out
availableEffectsUnfiltered == availableEffects

\* const availableEffectsCopy = [...availableEffects].filter((effect) => effect.id !== 47)
availableEffectsCopy == SelectSeq(availableEffects, LAMBDA e : e.id # RandomFxId)

\* the number of descriptors Random FX takes
SliceLen == 3

\* availableEffectsCopy.slice(0, 3) after the shuffle: every selection the
\* random numbers can produce, as ids
Selections ==
    LET ids == IdsOf(availableEffectsCopy)
    IN  {SubSeq(ShuffleFrom(ids, Len(ids) - 1, seed), 1, SliceLen) : seed \in 0..(RandomSeeds - 1)}

\* for (const effect of selectedEffects) currentNode = effect.apply(audioContext, currentNode)
RECURSIVE ApplySelected(_, _, _)
ApplySelected(sel, pos, g) ==
    IF pos > Len(sel) THEN g
    ELSE ApplySelected(sel, pos + 1, ApplyDescriptor(EffectById(sel[pos]), RandomFxId, pos, g))

\* effect.apply(audioContext, currentNode); sel is what Random FX picks if it is e
ApplyEffect(e, g, sel) ==
    IF e.id = RandomFxId THEN ApplySelected(sel, 1, g) ELSE ApplyDescriptor(e, e.id, 0, g)

----------------------------------------------------------------------------
(* The apply-effects useEffect *)

\* effectNodesRef.current.forEach((node) => node.disconnect()), then sourceNode.disconnect()
RECURSIVE DisconnectAll(_, _)
DisconnectAll(E, nodes) ==
    IF nodes = <<>> THEN E ELSE DisconnectAll(Disconnect(E, Head(nodes).node), Tail(nodes))

\* mutant of Teardown: Source is not disconnected
TeardownKeepsSource(E, registry) == DisconnectAll(E, registry)

Teardown(E, registry) == Disconnect(DisconnectAll(E, registry), SourceNode)

\* activeEffects.forEach: apply, effectNodesRef.current.set(effect.id, effectNode),
\* currentNode = effectNode.  st is [g, registry].
RECURSIVE ApplyActive(_, _, _)
ApplyActive(effects, st, sel) ==
    IF effects = <<>> THEN st
    ELSE LET e == Head(effects)
             g == ApplyEffect(e, st.g, sel)
         IN  ApplyActive(Tail(effects),
                         [g |-> g, registry |-> Append(st.registry, [id |-> e.id, node |-> g.cur])],
                         sel)

\* mutant of ResetRate: the rate is never put back to 1.0
ResetRateNever(effects, rate) == rate

\* if (!activeEffects.some((effect) => [...].includes(effect.name))) playbackRate = 1.0
ResetRate(effects, rate) ==
    IF \E i \in DOMAIN effects : effects[i].name \in ResetNames THEN rate ELSE 100

\* The body of the effect after its guard: the registry, the connections and
\* the playback rate it leaves, for the activation list ids.
ApplyEffects(ids, E, registry, rate, sel) ==
    LET effects == ActiveEffectsOf(ids)
        torn == LiveEdges(Teardown(E, registry))
        st == ApplyActive(effects, [g |-> Fold(torn, rate, SourceNode), registry |-> <<>>], sel)
    IN  [edges |-> LiveEdges(Connect(st.g.edges, st.g.cur, GainNode)),
         registry |-> st.registry,
         rate |-> ResetRate(effects, st.g.rate)]

\* what Random FX can pick in a rebuild for ids (<<>> when it is not applied)
PicksFor(ids) == IF RandomFxId \in Range(ids) THEN Selections ELSE {<<>>}

\* mutant of ToggleIds: the id is appended whether it is in the list or not
ToggleIdsAppends(prev, id) == Append(prev, id)

\* mutant of ToggleIds: toggling off drops the last id of the list
ToggleIdsDropsLast(prev, id) ==
    IF id \in Range(prev) THEN SubSeq(prev, 1, Len(prev) - 1) ELSE Append(prev, id)

\* toggleEffect's state update: prev => prev.includes(id) ? prev.filter(x => x !== id) : [...prev, id]
ToggleIds(prev, id) ==
    IF id \in Range(prev) THEN SelectSeq(prev, LAMBDA x : x # id) ELSE Append(prev, id)

\* the descriptors whose apply runs in a rebuild, in the order they run: the
\* picks of Random FX stand where Random FX is
RECURSIVE Applied(_, _)
Applied(effects, sel) ==
    IF effects = <<>> THEN <<>>
    ELSE (IF Head(effects).id = RandomFxId
          THEN [i \in DOMAIN sel |-> EffectById(sel[i])]
          ELSE <<Head(effects)>>) \o Applied(Tail(effects), sel)

\* the requestAnimationFrame loops these applies start
RECURSIVE LoopsStarted(_)
LoopsStarted(applied) ==
    IF applied = <<>> THEN 0 ELSE Head(applied).loops + LoopsStarted(Tail(applied))

\* the first descriptor of effects whose apply reaches Granular's
\* createScriptProcessor call (0: none does)
FirstScriptProcessor(effects, sel) ==
    LET hits == {i \in DOMAIN effects :
                   \/ effects[i].id = GranularId
                   \/ effects[i].id = RandomFxId /\ GranularId \in Range(sel)}
    IN  IF hits = {} THEN 0 ELSE SetMin(hits)

\* The effect when createScriptProcessor throws in Granular's apply: the
\* forEach stops there, with the stages before it applied and registered, the
\* picks of Random FX before it applied, nothing connected to Master Gain
\* and the rate left as written.
ApplyEffectsThrowing(ids, E, registry, rate, sel) ==
    LET effects == ActiveEffectsOf(ids)
        i == FirstScriptProcessor(effects, sel)
        before == SubSeq(effects, 1, i - 1)
        torn == LiveEdges(Teardown(E, registry))
        st == ApplyActive(before, [g |-> Fold(torn, rate, SourceNode), registry |-> <<>>], sel)
        picks == IF effects[i].id = RandomFxId
                 THEN SubSeq(sel, 1, (CHOOSE j \in DOMAIN sel : sel[j] = GranularId) - 1)
                 ELSE <<>>
        g == ApplySelected(picks, 1, st.g)
    IN  [edges |-> LiveEdges(g.edges),
         registry |-> st.registry,
         rate |-> g.rate,
         applied |-> Applied(before, sel) \o [j \in DOMAIN picks |-> EffectById(picks[j])]]

\* One run of the apply-effects useEffect past its guard, for the activation
\* list ids on the connections E: what it leaves, and whether it threw.
Rebuilds(ids, E) ==
    {[sel |-> sel, threw |-> FALSE, applied |-> Applied(ActiveEffectsOf(ids), sel),
      out |-> ApplyEffects(ids, E, effectNodes, playbackRate, sel)] : sel \in PicksFor(ids)}
    \cup
    {[sel |-> sel, threw |-> TRUE,
      applied |-> ApplyEffectsThrowing(ids, E, effectNodes, playbackRate, sel).applied,
      out |-> ApplyEffectsThrowing(ids, E, effectNodes, playbackRate, sel)] :
        sel \in {x \in PicksFor(ids) : FirstScriptProcessor(ActiveEffectsOf(ids), x) # 0}}

----------------------------------------------------------------------------
(* The name of the file an export downloads.  A string is the sequence of its
   characters. *)

\* the characters of a descriptor's name
Characters(name) ==
    IF name = "Bass Boost" THEN <<"B", "a", "s", "s", " ", "B", "o", "o", "s", "t">>
    ELSE IF name = "8D Audio" THEN <<"8", "D", " ", "A", "u", "d", "i", "o">>
    ELSE IF name = "Reverb" THEN <<"R", "e", "v", "e", "r", "b">>
    ELSE IF name = "Nightcore" THEN <<"N", "i", "g", "h", "t", "c", "o", "r", "e">>
    ELSE IF name = "Vaporwave" THEN <<"V", "a", "p", "o", "r", "w", "a", "v", "e">>
    ELSE IF name = "Pitch Shift Up" THEN <<"P", "i", "t", "c", "h", " ", "S", "h", "i", "f", "t", " ", "U", "p">>
    ELSE IF name = "Pitch Shift Down" THEN <<"P", "i", "t", "c", "h", " ", "S", "h", "i", "f", "t", " ", "D", "o", "w", "n">>
    ELSE IF name = "Chipmunk" THEN <<"C", "h", "i", "p", "m", "u", "n", "k">>
    ELSE IF name = "Monster Voice" THEN <<"M", "o", "n", "s", "t", "e", "r", " ", "V", "o", "i", "c", "e">>
    ELSE IF name = "Granular" THEN <<"G", "r", "a", "n", "u", "l", "a", "r">>
    ELSE IF name = "Time Stretch" THEN <<"T", "i", "m", "e", " ", "S", "t", "r", "e", "t", "c", "h">>
    ELSE IF name = "Random FX" THEN <<"R", "a", "n", "d", "o", "m", " ", "F", "X">>
    ELSE <<>>

\* File.name of the files the user can pick
FileName(f) ==
    IF f = 1 THEN <<"s", "o", "n", "g", ".", "m", "p", "3">>
    ELSE IF f = 2 THEN <<"m", "y", ".", "s", "o", "n", "g", ".", "m", "p", "3">>
    ELSE <<"s", "o", "n", "g">>

UpperCase == <<"A", "B", "C", "D", "E", "F", "G", "H", "I", "J", "K", "L", "M", "N", "O", "P", "Q", "R", "S", "T", "U", "V", "W", "X", "Y", "Z">>

LowerCase == <<"a", "b", "c", "d", "e", "f", "g", "h", "i", "j", "k", "l", "m", "n", "o", "p", "q", "r", "s", "t", "u", "v", "w", "x", "y", "z">>

\* String.prototype.toLowerCase()
ToLowerCase(str) ==
    [i \in DOMAIN str |->
       IF \E k \in DOMAIN UpperCase : UpperCase[k] = str[i]
       THEN LowerCase[CHOOSE k \in DOMAIN UpperCase : UpperCase[k] = str[i]]
       ELSE str[i]]

\* what \s matches
WhiteSpace == {" ", "\t", "\n"}

\* the string without the white space it starts with
RECURSIVE SkipWhiteSpace(_)
SkipWhiteSpace(str) ==
    IF str # <<>> /\ Head(str) \in WhiteSpace THEN SkipWhiteSpace(Tail(str)) ELSE str

\* str.replace(/\s+/g, "-")
RECURSIVE ReplaceWhiteSpace(_)
ReplaceWhiteSpace(str) ==
    IF str = <<>> THEN <<>>
    ELSE IF Head(str) \in WhiteSpace THEN <<"-">> \o ReplaceWhiteSpace(SkipWhiteSpace(str))
    ELSE <<Head(str)>> \o ReplaceWhiteSpace(Tail(str))

\* strs.join("-")
RECURSIVE JoinHyphen(_)
JoinHyphen(strs) ==
    IF strs = <<>> THEN <<>>
    ELSE IF Len(strs) = 1 THEN strs[1]
    ELSE strs[1] \o <<"-">> \o JoinHyphen(Tail(strs))

\* a file name without its extension: the part before the last "."
SplitDotLast(str) ==
    LET dots == {i \in DOMAIN str : str[i] = "."}
    IN  IF dots = {} THEN str ELSE SubSeq(str, 1, SetMax(dots) - 1)

\* str.split(".")[0]: the part before the first "."
SplitDotFirst(str) ==
    LET dots == {i \in DOMAIN str : str[i] = "."}
    IN  IF dots = {} THEN str ELSE SubSeq(str, 1, SetMin(dots) - 1)

\* const originalName = audioFile?.name?.split(".")[0] || "audio"
OriginalName(file) ==
    IF file = 0 \/ SplitDotFirst(FileName(file)) = <<>>
    THEN <<"a", "u", "d", "i", "o">>
    ELSE SplitDotFirst(FileName(file))

\* activeEffects.length > 0 ? activeEffects.map(...).join("-") : "original",
\* for the ids of activeEffects
EffectNames(view) ==
    IF view = <<>> THEN <<"o", "r", "i", "g", "i", "n", "a", "l">>
    ELSE JoinHyphen([i \in DOMAIN view |->
                       ReplaceWhiteSpace(ToLowerCase(Characters(EffectById(view[i]).name)))])

\* `${originalName}-${effectNames}.mp3`
Filename(file, view) ==
    OriginalName(file) \o <<"-">> \o EffectNames(view) \o <<".", "m", "p", "3">>

----------------------------------------------------------------------------
(* The recording useEffect *)

\* the refs the recording useEffect works on
Capture ==
    [recorders |-> recorders, ref |-> mediaRecorderRef, chunks |-> recordedChunks,
     taps |-> taps, cleanup |-> recordingCleanup, timeout |-> safetyTimeout]

\* mediaRecorderRef.current.stop() if its state is "recording": the recorder
\* goes inactive and queues the task that fires its two events, dataavailable
\* and stop
StopRecorder(c) ==
    IF c.ref # 0 /\ c.recorders[c.ref].state = "recording"
    THEN [c EXCEPT !.recorders[c.ref] = [@ EXCEPT !.state = "inactive", !.events = 2]]
    ELSE c

\* mutant of RecordingCleanup: the tap stays connected
RecordingCleanupKeepsTap(c, gain) ==
    IF c.cleanup = 0 THEN c
    ELSE StopRecorder([c EXCEPT !.cleanup = 0, !.timeout = FALSE])

\* The cleanup the effect returned: the ended listener removed, the timeout
\* cleared, gainNodeRef.current?.disconnect(destination), the recorder in
\* mediaRecorderRef stopped if it is recording.
RecordingCleanup(c, gain) ==
    IF c.cleanup = 0 THEN c
    ELSE StopRecorder([c EXCEPT !.cleanup = 0, !.timeout = FALSE,
                                !.taps = IF gain THEN @ \ {c.cleanup} ELSE @])

\* the recorders that record or owe an event
Busy(c) == {x \in DOMAIN c.recorders : c.recorders[x].state = "recording" \/ c.recorders[x].events > 0}

\* the recorders that are done are forgotten
Kept(c) ==
    [c EXCEPT !.recorders = [id \in Busy(c) |-> c.recorders[id]],
              !.ref = IF @ \in Busy(c) THEN @ ELSE 0]

\* new MediaRecorder(destination.stream, ...)
NewRecorder(file, view) == [state |-> "recording", events |-> 0, file |-> file, view |-> view]

\* The body of the effect: past its guard it creates a destination, connects
\* Master Gain to it, creates a recorder whose onstop closes over audioFile
\* and activeEffects of this render, puts it in mediaRecorderRef, empties
\* recordedChunksRef, starts it, registers the ended listener and the timeout.
RecordingBody(c, recording, context, gain, file, view) ==
    IF ~recording \/ context = "null" \/ ~gain THEN c
    ELSE LET id == SetMin((1..(MaxRecorders + 1)) \ DOMAIN c.recorders)
         IN  Kept([c EXCEPT !.recorders = [x \in DOMAIN @ \cup {id} |->
                                             IF x = id THEN NewRecorder(file, view) ELSE @[x]],
                            !.ref = id, !.chunks = <<>>, !.taps = @ \cup {id},
                            !.cleanup = id, !.timeout = TRUE])

\* the taps no cleanup knows of: those of set-ups that threw
LeakedTaps(c) == {t \in c.taps : t < 0}

\* The body of the effect when the set-up throws past the guard: in
\* createMediaStreamDestination (nothing is connected yet) or, with Master
\* Gain connected to the new destination, in the MediaRecorder calls.  The
\* catch calls setIsRecording(false); no cleanup is returned.
RecordingBodyThrowing(c, connected) ==
    [c EXCEPT !.taps = IF connected THEN @ \cup {-(Cardinality(LeakedTaps(c)) + 1)} ELSE @,
              !.cleanup = 0, !.timeout = FALSE]

\* One run of the effect in a commit: the cleanup of the last run (the refs as
\* they were), then the body (the state and the refs as the commit left them).
\* activeEffects is a new array in every render, so the effect runs in every commit.
RecordingEffect(c, gainBefore, recording, context, gain, file, view) ==
    RecordingBody(Kept(RecordingCleanup(c, gainBefore)), recording, context, gain, file, view)

\* the refs take the values of c; no more than MaxRecorders recorders have
\* something left to do
SetCapture(c) ==
    /\ Cardinality(Busy(c)) <= MaxRecorders
    /\ recorders' = c.recorders
    /\ mediaRecorderRef' = c.ref
    /\ recordedChunks' = c.chunks
    /\ taps' = c.taps
    /\ recordingCleanup' = c.cleanup
    /\ safetyTimeout' = c.timeout

----------------------------------------------------------------------------
(* Initial state: the provider is mounted, no file is chosen *)

\* no toggleEffect call is being observed
NoToggle == [n |-> 0, id |-> 0, wasActive |-> FALSE, initialized |-> FALSE,
             ids |-> {}, view |-> <<>>, edges |-> {}, registry |-> <<>>]

\* no download has been triggered
NoArtifact == [file |-> 0, view |-> <<>>, chunks |-> <<>>, name |-> <<>>, recorder |-> 0, data |-> 0]

Init ==
    /\ audioFile = 0
    /\ audioUrl = 0
    /\ canPlayListener = FALSE
    /\ mediaElementSourced = FALSE
    /\ audioContextRef = "null"
    /\ sourceNodeRef = FALSE
    /\ gainNodeRef = FALSE
    /\ audioContextInitialized = FALSE
    /\ activeEffectIds = <<>>
    /\ effectNodes = <<>>
    /\ edges = {}
    /\ selectedEffects = <<>>
    /\ playbackRate = 100
    /\ lastToggle = NoToggle
    /\ rafLoops = 0
    /\ mounted = TRUE
    /\ isRecording = FALSE
    /\ recorders = <<>>
    /\ mediaRecorderRef = 0
    /\ recordedChunks = <<>>
    /\ taps = {}
    /\ recordingCleanup = 0
    /\ safetyTimeout = FALSE
    /\ playing = FALSE
    /\ currentTime = 0
    /\ playPending = FALSE
    /\ resumePending = "none"
    /\ isPlaying = FALSE
    /\ resumeCalled = FALSE
    /\ artifacts = 0
    /\ lastArtifact = NoArtifact
    /\ lastExport = "none"

----------------------------------------------------------------------------
(* Actions *)

\* the step triggers no download and is no downloadProcessedAudio call
Quiet == lastArtifact' = NoArtifact /\ lastExport' = "none" /\ UNCHANGED artifacts

\* The guard of the apply-effects useEffect, in a provider that is mounted
EngineReady ==
    mounted /\ audioContextInitialized /\ audioContextRef # "null" /\ sourceNodeRef /\ gainNodeRef

\* The observer's record of a toggleEffect(id) call: the second call in a row
\* with the same id keeps the state recorded before the first.
ObserveToggle(id) ==
    IF lastToggle.n = 1 /\ lastToggle.id = id
    THEN [lastToggle EXCEPT !.n = 2]
    ELSE [n |-> 1, id |-> id,
          wasActive |-> id \in Range(activeEffectIds),
          initialized |-> EngineReady,
          ids |-> Range(activeEffectIds),
          view |-> IdsOf(activeEffects),
          edges |-> edges,
          registry |-> IdsOf(effectNodes)]

\* A commit in which the apply-effects useEffect runs past its guard for ids on
\* the connections E, and then the recording useEffect.  If an apply throws,
\* React unmounts the provider: the cleanups run, the recording one and the
\* one that closes the context.
RebuildCommit(ids, E, context) ==
    \E r \in Rebuilds(ids, E) :
       /\ edges' = r.out.edges
       /\ effectNodes' = r.out.registry
       /\ playbackRate' = r.out.rate
       /\ selectedEffects' = r.sel
       /\ rafLoops' = rafLoops + LoopsStarted(r.applied)
       /\ rafLoops' <= MaxLoops
       /\ mounted' = ~r.threw
       /\ audioContextRef' = IF r.threw THEN "closed" ELSE context
       /\ SetCapture(IF r.threw
                     THEN Kept(RecordingCleanup(Capture, gainNodeRef))
                     ELSE RecordingEffect(Capture, gainNodeRef, isRecording, context, TRUE,
                                          audioFile, IdsOf(ActiveEffectsOf(ids))))

\* toggleEffect(id), and the useEffects the new activeEffectIds array
\* triggers: apply-effects and recording.
ToggleEffect(id) ==
    /\ mounted
    /\ id \in Range(activeEffectIds) \/ Len(activeEffectIds) < MaxActive
    /\ activeEffectIds' = ToggleIds(activeEffectIds, id)
    /\ lastToggle' = ObserveToggle(id)
    /\ IF EngineReady
       THEN RebuildCommit(activeEffectIds', edges, audioContextRef)
       ELSE /\ SetCapture(RecordingEffect(Capture, gainNodeRef, isRecording, audioContextRef,
                                          gainNodeRef, audioFile,
                                          IdsOf(ActiveEffectsOf(activeEffectIds'))))
            /\ UNCHANGED <<edges, effectNodes, playbackRate, selectedEffects, rafLoops,
                           mounted, audioContextRef>>
    /\ UNCHANGED <<audioFile, audioUrl, canPlayListener, mediaElementSourced,
                   sourceNodeRef, gainNodeRef, audioContextInitialized,
                   isRecording, elementVars, playbackVars>>
    /\ Quiet

\* mutant of CloseContext: the connections of the closed context stay
CloseContextKeepsGraph(E) == E

\* audioContextRef.current.close() with the refs and the registry dropped:
\* nothing the provider holds is connected to a node of the closed context
CloseContext(E) == {}

\* setAudioFile(f) with another file, and the commits it causes.  The recording
\* useEffect cleans up; the file-change useEffect gives the element the new
\* URL and calls load() (which pauses the element, rewinds it, puts
\* playbackRate back to the default rate and rejects a pending play()
\* promise, whose handler calls setIsRecording(false)), closes the context,
\* clears the refs and the registry and empties the activation list; the
\* bodies of the apply-effects and the recording useEffect return at their
\* guards; the initialization useEffect registers its canplaythrough listener.
LoadFile(f) ==
    /\ mounted
    /\ f # audioFile
    /\ audioFile' = f
    /\ audioUrl' = f
    /\ playbackRate' = 100
    /\ audioContextRef' = "null"
    /\ sourceNodeRef' = FALSE
    /\ gainNodeRef' = FALSE
    /\ effectNodes' = <<>>
    /\ edges' = CloseContext(edges)
    /\ selectedEffects' = <<>>
    /\ audioContextInitialized' = FALSE
    /\ activeEffectIds' = <<>>
    /\ canPlayListener' = TRUE
    /\ lastToggle' = NoToggle
    /\ SetCapture(RecordingEffect(Capture, gainNodeRef, isRecording, "null", FALSE, f, <<>>))
    /\ playing' = FALSE
    /\ currentTime' = 0
    /\ playPending' = FALSE
    /\ isRecording' = IF playPending THEN FALSE ELSE isRecording
    /\ resumePending' = IF resumePending = "current" THEN "stale" ELSE resumePending
    /\ isPlaying' = FALSE
    /\ resumeCalled' = FALSE
    /\ UNCHANGED <<mediaElementSourced, rafLoops, mounted>>
    /\ Quiet

\* mutant of ApplyEffectsDeps: the effect does not depend on audioContextInitialized
ApplyEffectsDepsWithoutInitialized == {"activeEffectIds"}

\* the dependency list of the apply-effects useEffect
ApplyEffectsDeps == {"activeEffectIds", "audioContextInitialized"}

\* canplaythrough with initializeAudioContext succeeding: a context in the
\* given state, source and gain are created, Source -> Master Gain ->
\* Destination is connected, and setAudioContextInitialized(true) runs the
\* apply-effects useEffect, which depends on it, for the ids active by then,
\* and the recording one.
CanPlayThrough(state) ==
    /\ mounted
    /\ canPlayListener
    /\ ~mediaElementSourced
    /\ canPlayListener' = FALSE
    /\ mediaElementSourced' = TRUE
    /\ sourceNodeRef' = TRUE
    /\ gainNodeRef' = TRUE
    /\ audioContextInitialized' = TRUE
    /\ IF "audioContextInitialized" \in ApplyEffectsDeps
       THEN RebuildCommit(activeEffectIds, InitialWiring, state)
       ELSE /\ edges' = InitialWiring
            /\ audioContextRef' = state
            /\ SetCapture(RecordingEffect(Capture, gainNodeRef, isRecording, state, TRUE,
                                          audioFile, IdsOf(activeEffects)))
            /\ UNCHANGED <<effectNodes, playbackRate, selectedEffects, rafLoops, mounted>>
    /\ lastToggle' = NoToggle
    /\ UNCHANGED <<audioFile, audioUrl, activeEffectIds, isRecording, elementVars, playbackVars>>
    /\ Quiet

\* canplaythrough with createMediaElementSource throwing, the audio element
\* having been given a source node for an earlier file: the new context stays
\* in audioContextRef, nothing else is set, the listener is removed.
CanPlayThroughFails ==
    /\ mounted
    /\ canPlayListener
    /\ mediaElementSourced
    /\ canPlayListener' = FALSE
    /\ audioContextRef' = "running"
    /\ lastToggle' = NoToggle
    /\ UNCHANGED <<audioFile, audioUrl, mediaElementSourced, sourceNodeRef, gainNodeRef,
                   audioContextInitialized, activeEffectIds, effectNodes, edges,
                   selectedEffects, playbackRate, rafLoops, mounted,
                   isRecording, recorderVars, elementVars, playbackVars>>
    /\ Quiet

\* the graph variables when only the recording side moves
GraphUnchanged ==
    /\ UNCHANGED <<audioFile, audioUrl, canPlayListener, mediaElementSourced, sourceNodeRef,
                gainNodeRef, audioContextInitialized, activeEffectIds, effectNodes, edges,
                selectedEffects, playbackRate, rafLoops, mounted>>
    /\ lastToggle' = NoToggle

\* setIsRecording(value) and the commit it causes, if the state changes and
\* the provider is mounted: the recording useEffect runs.
SetIsRecording(value, c, context) ==
    /\ isRecording' = IF mounted THEN value ELSE isRecording
    /\ IF mounted /\ value # isRecording
       THEN SetCapture(RecordingEffect(c, gainNodeRef, value, context, gainNodeRef,
                                       audioFile, IdsOf(activeEffects)))
       ELSE SetCapture(c)

\* mutant of ExportGuard: audioContextInitialized is not looked at
ExportGuardWithoutInitialized == audioUrl # 0

\* !(!audioRef.current || !audioUrl || !audioContextInitialized)
ExportGuard == audioUrl # 0 /\ audioContextInitialized

\* mutant of Suspended: the state of the context is not looked at
SuspendedNever(context) == FALSE

\* audioContextRef.current && audioContextRef.current.state === "suspended"
Suspended(context) == context = "suspended"

\* downloadProcessedAudio().  Past its guard it rewinds the element; with the
\* context suspended it calls resume() and leaves the rest to the promise,
\* else it calls setIsRecording(true) and play().
DownloadProcessedAudio ==
    /\ mounted
    /\ IF ~ExportGuard
       THEN /\ lastExport' = "notReady"
            /\ UNCHANGED <<isRecording, recorderVars, elementVars, artifacts>>
       ELSE /\ lastExport' = "accepted"
            /\ artifacts' = 0
            /\ currentTime' = 0
            /\ IF Suspended(audioContextRef)
               THEN /\ resumePending = "none"
                    /\ resumePending' = "current"
                    /\ UNCHANGED <<isRecording, recorderVars, playing, playPending>>
               ELSE /\ SetIsRecording(TRUE, Capture, audioContextRef)
                    /\ playing' = TRUE
                    /\ playPending' = TRUE
                    /\ UNCHANGED resumePending
    /\ lastArtifact' = NoArtifact
    /\ UNCHANGED audioContextRef
    /\ UNCHANGED playbackVars
    /\ GraphUnchanged

\* downloadProcessedAudio() on a running context with the set-up of the
\* recording useEffect throwing: setIsRecording(true) and play(), the commit
\* runs the effect, whose catch calls setIsRecording(false); the commit of
\* that runs the effect again, which returns at its guard.
DownloadSetUpFails ==
    /\ mounted
    /\ ExportGuard
    /\ ~Suspended(audioContextRef)
    /\ ~isRecording
    /\ audioContextRef # "null" /\ gainNodeRef
    /\ Cardinality(LeakedTaps(Capture)) < MaxLeakedTaps
    /\ \E connected \in BOOLEAN :
         SetCapture(RecordingBodyThrowing(Kept(RecordingCleanup(Capture, gainNodeRef)), connected))
    /\ UNCHANGED isRecording
    /\ currentTime' = 0
    /\ playing' = TRUE
    /\ playPending' = TRUE
    /\ lastExport' = "accepted"
    /\ artifacts' = 0
    /\ lastArtifact' = NoArtifact
    /\ UNCHANGED <<audioContextRef, resumePending>>
    /\ UNCHANGED playbackVars
    /\ GraphUnchanged

\* togglePlay().  If isPlaying it pauses the element, which rejects a pending
\* play() promise of downloadProcessedAudio, whose handler calls
\* setIsRecording(false); else it calls resume() on a suspended context
\* without waiting for it, and play(), which starts the element or not.  Then
\* setIsPlaying(!isPlaying), and the commit runs the recording useEffect.
TogglePlay ==
    /\ mounted
    /\ audioUrl # 0
    /\ isPlaying' = ~isPlaying
    /\ IF isPlaying
       THEN /\ playing' = FALSE
            /\ playPending' = FALSE
            /\ UNCHANGED resumeCalled
       ELSE /\ resumeCalled' = (resumeCalled \/ Suspended(audioContextRef))
            /\ \E started \in BOOLEAN : playing' = (playing \/ started)
            /\ UNCHANGED playPending
    /\ LET rejected == isPlaying /\ playPending /\ isRecording
           c == RecordingEffect(Capture, gainNodeRef, isRecording, audioContextRef,
                                gainNodeRef, audioFile, IdsOf(activeEffects))
       IN  /\ isRecording' = IF rejected THEN FALSE ELSE isRecording
           /\ SetCapture(IF rejected
                         THEN RecordingEffect(c, gainNodeRef, FALSE, audioContextRef,
                                              gainNodeRef, audioFile, IdsOf(activeEffects))
                         ELSE c)
    /\ UNCHANGED <<audioContextRef, currentTime, resumePending>>
    /\ Quiet
    /\ GraphUnchanged

\* the resume() togglePlay called settles: fulfilled, the context runs
ResumeSettles ==
    /\ resumeCalled
    /\ resumeCalled' = FALSE
    /\ \E fulfilled \in BOOLEAN :
         audioContextRef' = IF fulfilled /\ audioContextRef = "suspended"
                            THEN "running" ELSE audioContextRef
    /\ UNCHANGED <<isRecording, recorderVars, elementVars, isPlaying>>
    /\ Quiet
    /\ GraphUnchanged

\* resume() is fulfilled: the context runs (if it is still the one of the
\* refs), setIsRecording(true), play()
ResumeResolves ==
    /\ resumePending # "none"
    /\ resumePending' = "none"
    /\ audioContextRef' = IF resumePending = "current" THEN "running" ELSE audioContextRef
    /\ SetIsRecording(TRUE, Capture, audioContextRef')
    /\ playing' = TRUE
    /\ playPending' = TRUE
    /\ UNCHANGED <<currentTime>>
    /\ Quiet
    /\ UNCHANGED playbackVars
    /\ GraphUnchanged

\* resume() is rejected: setIsRecording(false)
ResumeRejects ==
    /\ resumePending # "none"
    /\ resumePending' = "none"
    /\ SetIsRecording(FALSE, Capture, audioContextRef)
    /\ UNCHANGED <<audioContextRef, playing, currentTime, playPending>>
    /\ Quiet
    /\ UNCHANGED playbackVars
    /\ GraphUnchanged

\* play() is fulfilled
PlayResolves ==
    /\ playPending
    /\ playPending' = FALSE
    /\ UNCHANGED <<audioContextRef, isRecording, recorderVars, playing, currentTime,
                   resumePending>>
    /\ Quiet
    /\ UNCHANGED playbackVars
    /\ GraphUnchanged

\* play() is rejected: the element does not play, setIsRecording(false)
PlayRejects ==
    /\ playPending
    /\ playPending' = FALSE
    /\ playing' = FALSE
    /\ SetIsRecording(FALSE, Capture, audioContextRef)
    /\ UNCHANGED <<audioContextRef, currentTime, resumePending>>
    /\ Quiet
    /\ UNCHANGED playbackVars
    /\ GraphUnchanged

\* timeupdate while the element plays: handleTimeUpdate calls setCurrentTime,
\* and the commit runs the recording useEffect
TimeUpdate ==
    /\ mounted
    /\ playing
    /\ currentTime' = 1
    /\ SetCapture(RecordingEffect(Capture, gainNodeRef, isRecording, audioContextRef,
                                  gainNodeRef, audioFile, IdsOf(activeEffects)))
    /\ UNCHANGED <<audioContextRef, isRecording, playing, playPending, resumePending>>
    /\ Quiet
    /\ UNCHANGED playbackVars
    /\ GraphUnchanged

\* ended: the element stops at the end of the track; handleEnded calls
\* setIsPlaying(false); handleRecordingEnd, if it is registered, stops the
\* recorder in mediaRecorderRef; if isPlaying changed, the commit runs the
\* recording useEffect
Ended ==
    /\ playing
    /\ ~playPending
    /\ playing' = FALSE
    /\ currentTime' = 1
    /\ isPlaying' = IF mounted THEN FALSE ELSE isPlaying
    /\ LET c == IF recordingCleanup # 0 THEN StopRecorder(Capture) ELSE Capture
       IN  IF mounted /\ isPlaying
           THEN SetCapture(RecordingEffect(c, gainNodeRef, isRecording, audioContextRef,
                                           gainNodeRef, audioFile, IdsOf(activeEffects)))
           ELSE SetCapture(c)
    /\ UNCHANGED <<audioContextRef, isRecording, playPending, resumePending, resumeCalled>>
    /\ Quiet
    /\ GraphUnchanged

\* the 30 s timeout fires: handleRecordingEnd
SafetyTimeout ==
    /\ safetyTimeout
    /\ SetCapture(StopRecorder([Capture EXCEPT !.timeout = FALSE]))
    /\ UNCHANGED <<audioContextRef, isRecording, elementVars>>
    /\ Quiet
    /\ UNCHANGED playbackVars
    /\ GraphUnchanged

\* ondataavailable of recorder id, for data of the given size: the data is
\* pushed to recordedChunksRef if its size is not 0
DataAvailable(c, id, size) ==
    [c EXCEPT !.chunks = IF size > 0 THEN Append(@, id) ELSE @]

\* the download onstop triggers: the Blob of recordedChunksRef under the name
\* made of audioFile and activeEffects as the recorder's render saw them
Artifact(c, id) ==
    [file |-> c.recorders[id].file, view |-> c.recorders[id].view, chunks |-> c.chunks,
     name |-> Filename(c.recorders[id].file, c.recorders[id].view)]

\* what the observer keeps of a download: the artifact, the recorder whose
\* onstop triggered it and the size of the data that recorder delivered
Delivered(c, id, size) ==
    [file |-> Artifact(c, id).file, view |-> Artifact(c, id).view,
     chunks |-> Artifact(c, id).chunks, name |-> Artifact(c, id).name,
     recorder |-> id, data |-> size]

\* mutant of OnStop: recordedChunksRef is not emptied
OnStopKeepsChunks(c, id) == [c EXCEPT !.recorders[id].events = 0]

\* onstop of recorder id after the download: recordedChunksRef.current = []
OnStop(c, id) == [c EXCEPT !.recorders[id].events = 0, !.chunks = <<>>]

\* The task a stopped recorder queued: dataavailable with the data gathered,
\* then stop.  ondataavailable pushes the data, onstop triggers the download,
\* empties recordedChunksRef and calls setIsRecording(false).
RecorderStop(id) ==
    /\ id \in DOMAIN recorders
    /\ recorders[id].events > 0
    /\ \E size \in {0, 1} :
         LET c == DataAvailable(Capture, id, size)
         IN  /\ lastArtifact' = Delivered(c, id, size)
             /\ SetIsRecording(FALSE, Kept(OnStop(c, id)), audioContextRef)
    /\ artifacts' = IF artifacts = 0 THEN 1 ELSE 2
    /\ lastExport' = "none"
    /\ UNCHANGED <<audioContextRef, elementVars>>
    /\ UNCHANGED playbackVars
    /\ GraphUnchanged

\* the user studies the order and the rate: the context starts running
Next ==
    \/ \E id \in ToggleInputs : ToggleEffect(id)
    \/ \E f \in 1..NumFiles : LoadFile(f)
    \/ CanPlayThrough("running")
    \/ CanPlayThroughFails

Spec == Init /\ [][Next]_vars

\* the user studies the stages
NextStages ==
    \/ \E id \in StageInputs : ToggleEffect(id)
    \/ \E f \in 1..NumFiles : LoadFile(f)
    \/ CanPlayThrough("running")
    \/ CanPlayThroughFails

SpecStages == Init /\ [][NextStages]_vars

\* the states a new AudioContext can be in
ContextStates == {"running", "suspended"}

\* the user exports: toggles of Bass Boost, files,
\* downloadProcessedAudio, and the events of the element, the recorders, the
\* timeout and the promises
NextCapture ==
    \/ \E id \in CaptureInputs : ToggleEffect(id)
    \/ \E f \in 1..NumFiles : LoadFile(f)
    \/ \E state \in ContextStates : CanPlayThrough(state)
    \/ CanPlayThroughFails
    \/ DownloadProcessedAudio
    \/ ResumeResolves
    \/ ResumeRejects
    \/ PlayResolves
    \/ PlayRejects
    \/ TimeUpdate
    \/ Ended
    \/ SafetyTimeout
    \/ \E id \in 1..(MaxRecorders + 1) : RecorderStop(id)

SpecCapture == Init /\ [][NextCapture]_vars

\* What the platform owes: a pending timeout fires, a stopped recorder fires
\* its events, a pending promise is settled.  The
\* user and the audio element owe nothing.
Fairness ==
    /\ WF_vars(SafetyTimeout)
    /\ WF_vars(\E id \in 1..(MaxRecorders + 1) : RecorderStop(id))
    /\ WF_vars(ResumeResolves \/ ResumeRejects)
    /\ WF_vars(PlayResolves \/ PlayRejects)

\* the user exports without toggling
NextExport ==
    \/ \E f \in 1..NumFiles : LoadFile(f)
    \/ \E state \in ContextStates : CanPlayThrough(state)
    \/ CanPlayThroughFails
    \/ DownloadProcessedAudio
    \/ ResumeResolves
    \/ ResumeRejects
    \/ PlayResolves
    \/ PlayRejects
    \/ TimeUpdate
    \/ Ended
    \/ SafetyTimeout
    \/ \E id \in 1..(MaxRecorders + 1) : RecorderStop(id)

FairSpecExport == Init /\ [][NextExport]_vars /\ Fairness

\* the user exports in a browser in which the set-up of a recording can throw
NextSetUp ==
    \/ \E f \in 1..NumFiles : LoadFile(f)
    \/ \E state \in ContextStates : CanPlayThrough(state)
    \/ CanPlayThroughFails
    \/ DownloadProcessedAudio
    \/ DownloadSetUpFails
    \/ ResumeResolves
    \/ ResumeRejects
    \/ PlayResolves
    \/ PlayRejects
    \/ TimeUpdate
    \/ Ended
    \/ SafetyTimeout
    \/ \E id \in 1..(MaxRecorders + 1) : RecorderStop(id)

SpecSetUp == Init /\ [][NextSetUp]_vars

\* the user plays, pauses and toggles Bass Boost
NextPlayback ==
    \/ \E id \in CaptureInputs : ToggleEffect(id)
    \/ \E f \in 1..NumFiles : LoadFile(f)
    \/ \E state \in ContextStates : CanPlayThrough(state)
    \/ CanPlayThroughFails
    \/ TogglePlay
    \/ ResumeSettles
    \/ TimeUpdate
    \/ Ended

SpecPlayback == Init /\ [][NextPlayback]_vars

----------------------------------------------------------------------------
(* Notions the properties are stated with *)

\* the ids of the descriptors that are active
ActiveSet == Range(activeEffectIds) \cap CatalogIds

\* the descriptors whose apply writes playbackRate
RateIds == {id \in CatalogIds : EffectById(id).rate # 0}

\* the descriptors the rate reset looks for: Nightcore, Vaporwave, Pitch Shift Up, Pitch Shift Down
DesignatedIds == {4, 5, 9, 10}

\* the values a descriptor writes, and the reset value
RateValues == {100, 130, 80, 120, 85, 150, 70}

\* the ids whose apply ran in the last rebuild, in the order they ran, the
\* picks of Random FX in its place
RECURSIVE Evaluated(_, _)
Evaluated(ids, sel) ==
    IF ids = <<>> THEN <<>>
    ELSE (IF Head(ids) = RandomFxId THEN sel ELSE <<Head(ids)>>) \o Evaluated(Tail(ids), sel)

\* the rate written by the last rate-writing descriptor of a run of applies
LastRateWritten(run) ==
    LET writers == {i \in DOMAIN run : run[i] \in RateIds}
    IN  EffectById(run[SetMax(writers)]).rate

----------------------------------------------------------------------------
(* C1 *)

\* C1 - Order invariant: whatever the order in which the ids were toggled, the
\* rebuild applies the active descriptors, and activeEffects lists them, in
\* ascending id order: the sorted set of active ids.
C1_OrderInvariant ==
    /\ IdsOf(activeEffects) = SortedSeq(ActiveSet)
    /\ EngineReady => IdsOf(effectNodes) = SortedSeq(ActiveSet)

\* 40 was toggled on before 3 and the rebuild ran 3 before 40
C1_Witness ==
    /\ EngineReady
    /\ activeEffectIds = <<40, 3>>
    /\ IdsOf(effectNodes) = <<3, 40>>

----------------------------------------------------------------------------
(* C2 *)

\* C2 as stated - Idempotent rebuild: on an initialized engine, toggling an
\* inactive id on and then off again leaves the graph as it was before the two
\* calls: the same registered stage ids in the same order and the same
\* connections from Source to Master Gain.
C2_IdempotentRebuild ==
    (lastToggle.n = 2 /\ ~lastToggle.wasActive /\ lastToggle.initialized)
        => /\ edges = lastToggle.edges
           /\ IdsOf(effectNodes) = lastToggle.registry

\* C2 amended - the same, for the states in which Random FX is not active
\* before the two calls.
C2_IdempotentRebuildWithoutRandomFx ==
    (lastToggle.n = 2 /\ ~lastToggle.wasActive /\ lastToggle.initialized
       /\ RandomFxId \notin lastToggle.ids)
        => /\ edges = lastToggle.edges
           /\ IdsOf(effectNodes) = lastToggle.registry

\* an id was toggled on and off again while Monster Voice stayed active
C2_Witness ==
    /\ lastToggle.n = 2
    /\ ~lastToggle.wasActive
    /\ lastToggle.initialized
    /\ lastToggle.id \in CatalogIds
    /\ lastToggle.ids = {28}
    /\ <<StageNode(28, 0, 28, 2), GainNode>> \in edges

----------------------------------------------------------------------------
(* C3 *)

\* C3 - toggleEffect(id) called twice in a row leaves the set of stored ids and
\* the ordered activeEffects view as they were before the two calls.
C3_ToggleInvolution ==
    lastToggle.n = 2
        => /\ Range(activeEffectIds) = lastToggle.ids
           /\ IdsOf(activeEffects) = lastToggle.view

\* an active id was toggled off and on again, next to another active id
C3_Witness ==
    /\ lastToggle.n = 2
    /\ lastToggle.wasActive
    /\ Len(activeEffectIds) = 2
    /\ Last(activeEffectIds) = lastToggle.id

----------------------------------------------------------------------------
(* C4 *)

\* C4 - toggleEffect with an id that no descriptor has leaves activeEffectIds
\* unchanged.
C4_UnknownIdRejected ==
    [][\A id \in ToggleInputs \ CatalogIds :
          ToggleEffect(id) => activeEffectIds' = activeEffectIds]_vars

----------------------------------------------------------------------------
(* C5 *)

\* C5 - Rate reset boundary: after a rebuild, with no rate-writing descriptor
\* active the rate is 1.0, and with exactly one active (Random FX aside) the
\* rate is the value of that descriptor.
C5_RateResetBoundary ==
    EngineReady =>
        /\ ActiveSet \cap RateIds = {} => playbackRate = 100
        /\ \A id \in RateIds :
             (ActiveSet \cap RateIds = {id} /\ RandomFxId \notin ActiveSet)
                 => playbackRate = EffectById(id).rate

----------------------------------------------------------------------------
(* C6 *)

----------------------------------------------------------------------------
(* C7 *)

\* C7 - Last writer wins: after a rebuild with one of the four designated
\* descriptors active, the rate is the value written by the rate-writing
\* descriptor applied last in the fold (picks of Random FX included), never a
\* combination; without Random FX that is the active rate-writing descriptor
\* of highest id.
C7_LastWriterWins ==
    (EngineReady /\ ActiveSet \cap DesignatedIds # {})
        => /\ playbackRate = LastRateWritten(Evaluated(IdsOf(effectNodes), selectedEffects))
           /\ RandomFxId \notin ActiveSet
                => playbackRate = EffectById(SetMax(ActiveSet \cap RateIds)).rate

\* Nightcore and Chipmunk are both active and the rate is Chipmunk's 1.5
C7_Witness ==
    /\ EngineReady
    /\ ActiveSet = {4, 27}
    /\ playbackRate = 150

----------------------------------------------------------------------------
(* C8 *)

\* the rate the reset rule and the fold give for a set of active ids without Random FX
ResolvedRate(S) ==
    IF S \cap DesignatedIds = {} THEN 100 ELSE EffectById(SetMax(S \cap RateIds)).rate

\* C8 - the rate after a rebuild is one of the seven values and, without
\* Random FX, is fixed by the set of active ids alone, whatever was toggled
\* before.
C8_RateFromScratch ==
    /\ playbackRate \in RateValues
    /\ (EngineReady /\ RandomFxId \notin ActiveSet) => playbackRate = ResolvedRate(ActiveSet)

\* Vaporwave alone is active after Chipmunk, which had set 1.5, was toggled off
C8_Witness ==
    /\ EngineReady
    /\ ActiveSet = {5}
    /\ lastToggle.n = 1
    /\ lastToggle.id = 27
    /\ lastToggle.wasActive
    /\ playbackRate = 80

----------------------------------------------------------------------------
(* C9 *)

\* C9 as stated - the graph is a function of the activation set: a rebuild for
\* the set of ids that was active two toggleEffect calls earlier gives the
\* connections it gave then.
C9_GraphFunctionOfSet ==
    (lastToggle.n = 2 /\ lastToggle.initialized) => edges = lastToggle.edges

\* the nodes a descriptor other than Random FX creates as a top-level stage
StageNodesOf(id) == [k \in 1..EffectById(id).nodes |-> StageNode(id, 0, id, k)]

\* Source, then the nodes of the stages of ids in that order
RECURSIVE ChainNodes(_)
ChainNodes(ids) ==
    IF ids = <<>> THEN <<SourceNode>>
    ELSE ChainNodes(SubSeq(ids, 1, Len(ids) - 1)) \o StageNodesOf(Last(ids))

\* the connections of the single path along a sequence of nodes
PathEdges(p) == {<<p[i], p[i + 1]>> : i \in 1..(Len(p) - 1)}

\* C9 amended - after any rebuild for a set without Random FX the graph is
\* fixed by the set, whatever the toggles before: the connections are the
\* one path Source, the nodes of the active stages in ascending id order,
\* Master Gain, Destination, and each id is registered with the last node of
\* the path up to its stage.
C9_GraphFunctionOfSetWithoutRandomFx ==
    (EngineReady /\ RandomFxId \notin ActiveSet)
        => LET ids == SortedSeq(ActiveSet)
           IN  /\ edges = PathEdges(ChainNodes(ids) \o <<GainNode, Destination>>)
               /\ IdsOf(effectNodes) = ids
               /\ \A i \in DOMAIN effectNodes :
                    effectNodes[i].node = Last(ChainNodes(SubSeq(ids, 1, i)))

\* Reverb and Monster Voice are active, Reverb toggled off and on again
C9_Witness ==
    /\ EngineReady
    /\ activeEffectIds = <<28, 3>>
    /\ lastToggle.wasActive
    /\ <<StageNode(3, 0, 3, 1), StageNode(28, 0, 28, 1)>> \in edges

----------------------------------------------------------------------------
(* C10 *)

\* C10 - Composite exclusion: whenever Random FX has been applied it picked
\* three pairwise distinct descriptors of the catalog, none of them Random FX.
C10_CompositeExclusion ==
    /\ (EngineReady /\ RandomFxId \in ActiveSet) => selectedEffects # <<>>
    /\ selectedEffects # <<>>
         => /\ Len(selectedEffects) = SliceLen
            /\ IsInjective(selectedEffects)
            /\ Range(selectedEffects) \subseteq CatalogIds \ {RandomFxId}

\* Random FX is active and its three picks are applied
C10_Witness ==
    /\ EngineReady
    /\ RandomFxId \in ActiveSet
    /\ Len(selectedEffects) = SliceLen
    /\ \E id \in Range(selectedEffects) : EffectById(id).nodes > 0

----------------------------------------------------------------------------
(* C11 *)

\* the names of the descriptors with these ids, ascending by id, lower-cased,
\* white space hyphenated, joined by hyphens; "original" for none
HyphenatedNames(ids) ==
    IF ids = {} THEN <<"o", "r", "i", "g", "i", "n", "a", "l">>
    ELSE LET sorted == SortedSeq(ids)
         IN  JoinHyphen([i \in DOMAIN sorted |->
                           ReplaceWhiteSpace(ToLowerCase(Characters(EffectById(sorted[i]).name)))])

\* C11 - Filename derivation: a download is named <base>-<effects>.mp3, <base>
\* being the name of the source file without its extension and <effects> the
\* hyphenated lower-case names of the active descriptors in ascending id
\* order, "original" when none is active.
C11_FilenameDerivation ==
    lastArtifact # NoArtifact =>
        lastArtifact.name = SplitDotLast(FileName(lastArtifact.file)) \o <<"-">>
                            \o HyphenatedNames(Range(lastArtifact.view))
                            \o <<".", "m", "p", "3">>

----------------------------------------------------------------------------
(* C12 *)

\* C12 - Capture bound: isRecording never stays true forever; whenever it is
\* true the end of the track, the 30 s timeout or a cleanup stops the recorder,
\* and onstop sets it back to false.
C12_CaptureBound == isRecording ~> ~isRecording

----------------------------------------------------------------------------
(* C13 *)

\* C13 - Exclusivity: a downloadProcessedAudio call made while isRecording is
\* true is rejected: it leaves the taps, the recorders, the captured chunks
\* and the playback position of the running session as they are.
C13_Exclusivity ==
    [][(isRecording /\ lastExport' # "none")
         => UNCHANGED <<isRecording, taps, recorders, mediaRecorderRef, recordedChunks,
                        currentTime>>]_vars

----------------------------------------------------------------------------
(* C14 *)

\* C14 - One artifact per export: whatever toggles, re-renders, ended events
\* and timeouts come in between, an accepted downloadProcessedAudio call
\* triggers no more than one download.
C14_OneArtifactPerExport == artifacts <= 1

----------------------------------------------------------------------------
(* C15 *)

----------------------------------------------------------------------------
(* C16 *)

\* the node the last active stage returned (Source if no stage is registered)
LastReturned == IF effectNodes = <<>> THEN SourceNode ELSE Last(effectNodes).node

\* C16 - Path invariant: on an initialized engine the signal path is connected
\* end to end after every rebuild: every node a stage returned is fed from
\* Source, the last one feeds Master Gain, Master Gain feeds Destination, so
\* Source reaches Destination.
C16_PathInvariant ==
    EngineReady =>
        /\ \A i \in DOMAIN effectNodes : effectNodes[i].node \in ReachFrom({SourceNode}, edges)
        /\ <<LastReturned, GainNode>> \in edges
        /\ <<GainNode, Destination>> \in edges
        /\ Destination \in ReachFrom({SourceNode}, edges)

----------------------------------------------------------------------------
(* C17 *)

\* the stage nodes that have a connection
ConnectedStageNodes == {n \in {e[1] : e \in edges} \cup {e[2] : e \in edges} : n[3] # 0}

\* C17 - Stage construction failure: once an apply has thrown in a rebuild
\* the graph is in the fallback state: Source feeds Master Gain, no stage node
\* is registered or connected.
C17_FallbackOnThrow ==
    ~mounted =>
        /\ <<SourceNode, GainNode>> \in edges
        /\ effectNodes = <<>>
        /\ ConnectedStageNodes = {}

----------------------------------------------------------------------------
(* C18 *)

\* C18 - No leaked background tasks: after every rebuild the
\* requestAnimationFrame loops that run are those the applies of that rebuild
\* started, however many rebuilds there were before.
C18_NoLeakedTasks ==
    EngineReady => rafLoops = LoopsStarted(Applied(activeEffects, selectedEffects))

----------------------------------------------------------------------------
(* C19 *)

----------------------------------------------------------------------------
(* C20 *)

\* a recorder is recording
RecordingInProgress == \E id \in DOMAIN recorders : recorders[id].state = "recording"

\* a stopped recorder owes its stop event, whose handler calls setIsRecording(false)
StopPending == \E id \in DOMAIN recorders : recorders[id].events > 0

\* the step that loads another file while a recorder records stops the
\* recorder, releases the tap, the ended listener and the timeout, and leaves
\* isRecording true only with a stop event owed
CancelledByNewFile ==
    (audioFile' # audioFile /\ RecordingInProgress)
        => /\ ~RecordingInProgress'
           /\ taps' = {}
           /\ recordingCleanup' = 0
           /\ ~safetyTimeout'
           /\ isRecording' => StopPending'

\* a recorder only records the file that is loaded, on an initialized engine
RecordsLoadedFile ==
    \A id \in DOMAIN recorders :
       recorders[id].state = "recording" => recorders[id].file = audioFile /\ EngineReady

\* while a stop event is owed, isRecording is false no later than the last
\* of them
IdleByLastStopEvent ==
    (mounted /\ isRecording /\ StopPending)
        => (~isRecording' \/ StopPending')

\* C20 - A new file loaded while a recording is in progress cancels it: the
\* recorder is stopped and its tap released, no recorder records against the
\* new file's session, and isRecording goes back to false with the stop
\* event of the stopped recorder.
C20_NewFileCancelsRecording ==
    [][CancelledByNewFile /\ RecordsLoadedFile' /\ IdleByLastStopEvent]_vars

\* another file was loaded while the recorder of the first one recorded: the
\* recorder is stopped and owes its events, the tap is gone
C20_Witness ==
    /\ audioFile # 0
    /\ isRecording
    /\ ~RecordingInProgress
    /\ \E id \in DOMAIN recorders :
         /\ recorders[id].file # audioFile
         /\ recorders[id].state = "inactive"
         /\ recorders[id].events = 2
    /\ taps = {}
    /\ ~audioContextInitialized

----------------------------------------------------------------------------
(* C21 *)

\* a recorder that records in this state does not record in the next
RecorderStops ==
    \E id \in DOMAIN recorders :
       /\ recorders[id].state = "recording"
       /\ id \notin DOMAIN recorders' \/ recorders'[id].state # "recording"

\* a recorder records in the next state that does not record in this one
RecorderStarts ==
    \E id \in DOMAIN recorders' :
       /\ recorders'[id].state = "recording"
       /\ id \notin DOMAIN recorders \/ recorders[id].state # "recording"

\* the pending 30 s timeout is replaced by the timeout of another run of the effect
TimerRestarts == safetyTimeout /\ safetyTimeout' /\ recordingCleanup' # recordingCleanup

\* C21 - While a recorder records, it is stopped only by the ended event, by
\* the 30 s timeout or by the load of another file (or by play() failing);
\* no other step stops it, starts another recorder or restarts the timeout.
C21_StoppedOnlyByEndOrTimeout ==
    [][(RecordingInProgress /\ (RecorderStops \/ RecorderStarts \/ TimerRestarts))
         => (Ended \/ SafetyTimeout \/ PlayRejects \/ \E f \in 1..NumFiles : LoadFile(f))]_vars

----------------------------------------------------------------------------
(* C22 *)

\* nothing records on a context that is suspended
IdleWhileSuspended ==
    audioContextRef = "suspended" => ~isRecording /\ taps = {} /\ ~RecordingInProgress

\* the downloadProcessedAudio call accepted on a suspended context starts
\* neither the recording nor the playback
ExportWaitsForResume ==
    (lastExport' = "accepted" /\ audioContextRef = "suspended")
        => /\ resumePending' = "current"
           /\ UNCHANGED <<isRecording, recorders, mediaRecorderRef, taps, playing, playPending>>

\* a rejected resume() leaves no recording
IdleAfterFailedResume ==
    ResumeRejects => ~isRecording' /\ taps' = {} /\ ~RecordingInProgress' /\ UNCHANGED playing

----------------------------------------------------------------------------
(* C23 *)

\* C23 - togglePlay on a suspended context starts the playback only after
\* resume() has settled: no step into a state in which the resume() it called
\* is still pending starts the element or sets isPlaying to true.
C23_PlayWaitsForResume ==
    [][resumeCalled' => ((isPlaying' => isPlaying) /\ (playing' => playing))]_vars

----------------------------------------------------------------------------
(* C24 *)

\* the recorder of the session has stopped and its events are still owed
Finalizing == isRecording /\ ~RecordingInProgress /\ StopPending

\* the session is idle, the download triggered, the buffer empty, the tap released
IdleAfterArtifact ==
    /\ ~isRecording'
    /\ lastArtifact' # NoArtifact
    /\ recordedChunks' = <<>>
    /\ taps' = {}

\* C24 - Once the recorder has stopped, the session stays in Finalizing until
\* onstop delivers the artifact, and then it is idle with the chunk buffer
\* empty, isRecording false and the tap disconnected; it never goes back from
\* Finalizing to Recording.
C24_FinalizationReturnsToIdle ==
    [][Finalizing => (Finalizing' \/ IdleAfterArtifact)]_vars

----------------------------------------------------------------------------
(* C27 *)

\* C27 - Chunk integrity: the Blob a recorder's onstop downloads is made of
\* the data that recorder delivered and of nothing else: no chunk of another
\* recorder is in it, and its own chunk is not lost to the reset of
\* recordedChunksRef by a recorder set up later.
C27_ChunkIntegrity ==
    lastArtifact # NoArtifact =>
        lastArtifact.chunks = IF lastArtifact.data > 0 THEN <<lastArtifact.recorder>> ELSE <<>>

\* a recorder delivered its data and its download while a recorder set up
\* after it, which emptied the shared buffer, has events of its own to come
C27_Witness ==
    /\ lastArtifact # NoArtifact
    /\ lastArtifact.data > 0
    /\ \E id \in DOMAIN recorders : id # lastArtifact.recorder /\ recorders[id].events > 0

----------------------------------------------------------------------------
(* C25 *)

\* the nodes the applies of the last rebuild returned that they had created:
\* those of the active descriptors and those of the picks of Random FX
StageOutputs ==
    {StageNode(activeEffects[i].id, 0, activeEffects[i].id, activeEffects[i].nodes) :
        i \in {k \in DOMAIN activeEffects :
                 activeEffects[k].id # RandomFxId /\ activeEffects[k].nodes > 0}}
    \cup
    {StageNode(RandomFxId, pos, selectedEffects[pos], EffectById(selectedEffects[pos]).nodes) :
        pos \in {k \in DOMAIN selectedEffects : EffectById(selectedEffects[k]).nodes > 0}}

\* the connections of the graph the teardown of the next rebuild leaves
Superseded == Teardown(edges, effectNodes)

\* a rebuild for another activation list runs on the graph of this state
RebuildStep == EngineReady /\ mounted' /\ audioFile' = audioFile /\ activeEffectIds' # activeEffectIds

\* C25 - A rebuild leaves no stage of the graph it replaces wired: Source and
\* Master Gain are on no path through the old nodes, and the output of every
\* old stage is disconnected, the stages Random FX built inside included.
C25_NoSupersededStageWired ==
    [][RebuildStep =>
         /\ ReachFrom({SourceNode}, Superseded) = {SourceNode}
         /\ ReachInto({GainNode}, Superseded) = {GainNode}
         /\ \A n \in StageOutputs : \A e \in Superseded : e[1] # n]_vars

----------------------------------------------------------------------------
(* C26 *)

\* the canplaythrough event of the loaded file is handled
CanPlayThroughStep == canPlayListener /\ ~canPlayListener' /\ audioFile' = audioFile

\* C26 - Recovery by reload: whatever happened before, once a file is loaded
\* and its canplaythrough event is handled (with nothing toggled in between)
\* the engine is initialized, the activation list is empty, the graph is
\* Source -> Master Gain -> Destination, the playback rate is 1.0 and
\* isRecording is false.
C26_RecoveryByReload ==
    [][(CanPlayThroughStep /\ activeEffectIds = <<>>)
         => /\ EngineReady'
            /\ activeEffectIds' = <<>>
            /\ edges' = InitialWiring
            /\ playbackRate' = 100
            /\ ~isRecording']_vars

----------------------------------------------------------------------------
(* C28 *)

\* no export is under way: isRecording is false and no promise of an export is pending
Idle == ~isRecording /\ resumePending = "none" /\ ~playPending

\* C28 - At most one tap: Master Gain is connected to no more than one
\* MediaStreamDestination, no more than one recorder records, and with no
\* export under way no tap is connected, also after a set-up of the
\* recording that threw.
C28_AtMostOneTap ==
    /\ Cardinality(taps) <= 1
    /\ Cardinality({id \in DOMAIN recorders : recorders[id].state = "recording"}) <= 1
    /\ Idle => taps = {}

----------------------------------------------------------------------------
(* C29 *)

\* a toggleEffect call made with a file loaded and the engine not initialized
\* changes the activation list and leaves the graph, the registry and the
\* rate alone
ToggleBeforeInit ==
    (audioFile # 0 /\ ~audioContextInitialized /\ audioFile' = audioFile
       /\ activeEffectIds' # activeEffectIds)
        => /\ activeEffectIds' = ToggleIds(activeEffectIds, lastToggle'.id)
           /\ UNCHANGED <<edges, effectNodes, playbackRate, audioContextInitialized>>

\* the step that initializes the engine keeps the activation list and
\* rebuilds the graph for it: a stage for each active id, in ascending id
\* order, on the one path from Source to Master Gain
RebuildAtInit ==
    (~audioContextInitialized /\ audioContextInitialized')
        => /\ activeEffectIds' = activeEffectIds
           /\ IdsOf(effectNodes') = SortedSeq(ActiveSet)
           /\ RandomFxId \notin ActiveSet
                => edges' = PathEdges(ChainNodes(SortedSeq(ActiveSet)) \o <<GainNode, Destination>>)

\* C29 - Toggles made between the load of a file and the initialization of
\* the engine are not lost: they change the activation list and no graph, and
\* the initialization rebuilds the graph with the stages of the ids active by
\* then, in ascending id order.
C29_TogglesBeforeInitKept == [][ToggleBeforeInit /\ RebuildAtInit]_vars

\* the engine has just been initialized with Time Stretch and Reverb toggled
\* on before, in that order
C29_Witness ==
    /\ EngineReady
    /\ lastToggle = NoToggle
    /\ activeEffectIds = <<40, 3>>
    /\ IdsOf(effectNodes) = <<3, 40>>

----------------------------------------------------------------------------
(* C30 *)

\* C30 - activeEffectIds never holds an id twice, whatever toggleEffect calls
\* and file loads were made, so no descriptor is applied or registered twice
\* in a rebuild.
C30_NoDuplicateIds ==
    /\ IsInjective(activeEffectIds)
    /\ IsInjective(IdsOf(activeEffects))
    /\ IsInjective(IdsOf(effectNodes))

\* two ids are active, one of them toggled off and on again
C30_Witness ==
    /\ Len(activeEffectIds) = 2
    /\ lastToggle.n = 2
    /\ lastToggle.wasActive
    /\ lastToggle.id = Last(activeEffectIds)

====
